---- MODULE Spec2Model ----
(***************************************************************************)
(* The tenant storage actor (OrganizationStorage), the two authentication  *)
(* middlewares (clerkAuth, internalAuth) and the billing routes of the     *)
(* API, as one state machine.                                              *)
(*                                                                         *)
(* Every `await` of the source is a point where the running operation      *)
(* yields: the code between two awaits is one atomic step, and the steps   *)
(* of different operations interleave freely.                              *)
(***************************************************************************)
EXTENDS Integers, Sequences, FiniteSets, TLC

\* ------------------------------------------------------------------ bounds

\* Concurrent callers: actor clients (SpecStorage), billing requests
\* (SpecBilling).  Each caller issues its operation once.
MaxProcs == 2
\* The clock advances ClockStep seconds at a time: MaxTicks times where only
\* the order of timestamps matters, MaxAuthTicks times where a token's
\* lifetime does.
MaxTicks == 1
MaxAuthTicks == 2
ClockStep == 1800
\* Billing requests issued, one after the other or overlapping, on tenants
\* that may already have been provisioned (SpecRoutes).
MaxRequests == 1

\* --------------------------------------------------------------- constants

\* setExpirationTime('1h'), in seconds.
TokenTTL == 3600

\* JavaScript null / undefined (an absent header, claim, column or secret).
NULL == "null"

DEFAULT_INTERNAL_SECRET == "development-secret-key"

Procs == 1..MaxProcs

OrgIds == {"org_1"}
UserIds == {"user_1", "user_2"}
\* A tenant id is an organization id or, for a personal account, a user id.
Tenants == {"org_1", "user_1"}
Emails == {"a@example.com"}
CusIds == <<"cus_1", "cus_2", "cus_3", "cus_4">>

\* JavaScript truthiness of a string-or-null value: `!x`, `x || y`.
Falsy(x) == x = NULL \/ x = ""
\* x || null
OrNull(x) == IF Falsy(x) THEN NULL ELSE x

VARIABLES
    now,          \* the clock, epoch seconds
    env,          \* the Worker's bindings (secrets, URLs), fixed per run
    sql,          \* per actor: the durable SQLite store
    kv,           \* per actor: ctx.storage key 'orgId'
    initialized,  \* per actor: the in-memory flag of ensureInitialized
    initRuns,     \* per actor: times the initialization body began in this lifetime
    calls,        \* per caller: its actor method call in flight
    req,          \* the HTTP request passing through an auth middleware
    bill,         \* per caller: its billing request (the route handler's run)
    stripe,       \* the billing provider: the customers created, in order
    overlap       \* tenants for which two getOrCreateStripeCustomer calls overlapped

billVars == <<bill, stripe, overlap>>

\* ------------------------------------------------------- the SQLite store

\* One organization_settings row as INSERT ... (id) VALUES (id) makes it:
\* the nullable columns NULL, both timestamps DEFAULT (unixepoch()).
DefaultRow(id, t) ==
    [id |-> id, stripe_customer_id |-> NULL, creator_user_id |-> NULL,
     creator_email |-> NULL, created_at |-> t, updated_at |-> t]

EmptyDb == [exists |-> FALSE, rows |-> {}]

\* CREATE TABLE IF NOT EXISTS organization_settings (...)
SqlCreateTable(db) == [db EXCEPT !.exists = TRUE]

\* INSERT INTO organization_settings DEFAULT VALUES: a new AUTOINCREMENT id.
SqlInsertPlain(db, t) ==
    LET ids == {r.id : r \in db.rows}
        next == IF ids = {} THEN 1
                ELSE (CHOOSE m \in ids : \A i \in ids : i <= m) + 1
    IN [db EXCEPT !.rows = @ \cup {DefaultRow(next, t)}]

\* INSERT OR REPLACE INTO organization_settings (id) VALUES (1)
SqlInsertOrReplace(db, t) ==
    [db EXCEPT !.rows = {r \in @ : r.id # 1} \cup {DefaultRow(1, t)}]

\* INSERT OR IGNORE INTO organization_settings (id) VALUES (1)
SqlInsertOrIgnore(db, t) ==
    IF \E r \in db.rows : r.id = 1
    THEN db
    ELSE [db EXCEPT !.rows = @ \cup {DefaultRow(1, t)}]

\* The statements the program issues, all on the row WHERE id = 1.
NoStmt == [op |-> "none", p1 |-> NULL, p2 |-> NULL, ts |-> 0]
\* A statement in the SELECT's place that stores a customer id.
SelectCustomerStoring == [op |-> "update_customer", p1 |-> "cus_3", p2 |-> NULL, ts |-> 0]
SelectCustomer == [op |-> "select_customer", p1 |-> NULL, p2 |-> NULL, ts |-> 0]
\* An UPDATE of stripe_customer_id that never reaches the store.
UpdateCustomerDropped(id) == [op |-> "none", p1 |-> id, p2 |-> NULL, ts |-> 0]
UpdateCustomer(id) == [op |-> "update_customer", p1 |-> id, p2 |-> NULL, ts |-> 0]
SelectCreator == [op |-> "select_creator", p1 |-> NULL, p2 |-> NULL, ts |-> 0]
UpdateCreator(u, e, t) == [op |-> "update_creator", p1 |-> u, p2 |-> e, ts |-> t]

\* this.sql.exec(sql, ...params): the store after the statement, whether it
\* ran (a statement on a missing table throws), and the selected column of
\* each row it returns.
SqlExec(db, stmt) ==
    LET hit == {r \in db.rows : r.id = 1}
        row == CHOOSE r \in hit : TRUE
    IN
    IF ~db.exists THEN [db |-> db, ok |-> FALSE, out |-> <<>>]
    ELSE CASE stmt.op = "select_customer" ->
              [db |-> db, ok |-> TRUE,
               out |-> IF hit = {} THEN <<>> ELSE <<row.stripe_customer_id>>]
           [] stmt.op = "select_creator" ->
              [db |-> db, ok |-> TRUE,
               out |-> IF hit = {} THEN <<>> ELSE <<row.creator_user_id>>]
           [] stmt.op = "update_customer" ->
              [db |-> [db EXCEPT !.rows =
                         {IF r.id = 1 THEN [r EXCEPT !.stripe_customer_id = stmt.p1]
                                      ELSE r : r \in db.rows}],
               ok |-> TRUE, out |-> <<>>]
           [] stmt.op = "update_creator" ->
              [db |-> [db EXCEPT !.rows =
                         {IF r.id = 1 THEN [r EXCEPT !.creator_user_id = stmt.p1,
                                                      !.creator_email = stmt.p2,
                                                      !.updated_at = stmt.ts]
                                      ELSE r : r \in db.rows}],
               ok |-> TRUE, out |-> <<>>]
           [] OTHER -> [db |-> db, ok |-> TRUE, out |-> <<>>]

\* this.sql.databaseSize, in pages of 4096 bytes: one for the schema once the
\* table exists, one per row.
DatabaseSize(db) == IF db.exists THEN 4096 * (1 + Cardinality(db.rows)) ELSE 0

\* ------------------------------------------------------ the tenant record

\* The row with id 1 of an actor's store, when there is one.
HasRecord(a) == \E r \in sql[a].rows : r.id = 1
Record(a) == CHOOSE r \in sql[a].rows : r.id = 1
CreatorOf(a) == IF HasRecord(a) THEN Record(a).creator_user_id ELSE NULL
CreatorEmailOf(a) == IF HasRecord(a) THEN Record(a).creator_email ELSE NULL
CustomerOf(a) == IF HasRecord(a) THEN Record(a).stripe_customer_id ELSE NULL

\* Exactly one TenantRecord, the row with id 1, in a's store.
ExactlyOneRecord(a) ==
    /\ sql[a].exists
    /\ Cardinality(sql[a].rows) = 1
    /\ \A r \in sql[a].rows : r.id = 1

\* --------------------------------------------------------- internal tokens

NoToken == [kind |-> "none", key |-> NULL, orgId |-> NULL, userId |-> NULL,
            iat |-> 0, exp |-> 0]

\* this.env.INTERNAL_SECRET || DEFAULT_INTERNAL_SECRET
EffectiveSecret(secret) == IF Falsy(secret) THEN DEFAULT_INTERNAL_SECRET ELSE secret

\* new SignJWT({orgId, userId}).setIssuedAt().setExpirationTime('1d').sign(key)
SignInternalTokenOneDay(orgId, userId, secret, t) ==
    [kind |-> "jwt", key |-> EffectiveSecret(secret), orgId |-> orgId,
     userId |-> userId, iat |-> t, exp |-> t + 24 * TokenTTL]

\* new SignJWT({orgId, userId}).setIssuedAt().setExpirationTime('1h').sign(key)
SignInternalToken(orgId, userId, secret, t) ==
    [kind |-> "jwt", key |-> EffectiveSecret(secret), orgId |-> orgId,
     userId |-> userId, iat |-> t, exp |-> t + TokenTTL]

\* ------------------------------------------------ the actor's method calls

Methods == {"query", "queryOne", "exec", "getStorageStats",
            "setCreatorIfNotSet", "generateInternalToken", "fetch"}

IdleCall ==
    [actor |-> NULL, method |-> NULL, stmt |-> NoStmt, a1 |-> NULL, a2 |-> NULL,
     pc |-> "idle", ret |-> NULL, fresh |-> FALSE,
     status |-> "none", out |-> <<>>, one |-> NULL, current |-> NULL,
     token |-> NoToken, bytes |-> 0, http |-> 0, creatorAtCall |-> NULL]

NewCall(a, m, stmt, a1, a2) ==
    [IdleCall EXCEPT !.actor = a, !.method = m, !.stmt = stmt, !.a1 = a1,
                     !.a2 = a2, !.pc = "enter"]

\* What a client may ask of an actor: (method, statement, arg1, arg2).
\* fetch takes the path and the orgId of the JSON body.
Invocations ==
    {<<"query", s, NULL, NULL>> : s \in {SelectCustomer, UpdateCustomer("cus_1")}}
    \cup {<<"queryOne", SelectCreator, NULL, NULL>>}
    \cup {<<"exec", UpdateCustomer("cus_2"), NULL, NULL>>}
    \cup {<<"getStorageStats", NoStmt, NULL, NULL>>}
    \cup {<<"setCreatorIfNotSet", NoStmt, "user_1", "a@example.com">>,
          <<"setCreatorIfNotSet", NoStmt, "user_2", NULL>>}
    \cup {<<"generateInternalToken", NoStmt, "org_1", "user_1">>}
    \cup {<<"fetch", NoStmt, p, NULL>> : p \in {"/health", "/storage-stats", "/other"}}
    \cup {<<"fetch", NoStmt, "/store-org-id", o>> : o \in {"org_1", NULL}}

InFlight(c) == calls[c].pc \notin {"idle", "done"}

\* An ensureInitialized() that returns at once, whatever the flag.
EnsureInitializedSkipped(c, rec, cont) ==
    /\ calls' = [calls EXCEPT ![c] = [rec EXCEPT !.pc = cont]]
    /\ UNCHANGED <<sql, initRuns>>

\* ensureInitialized() up to its first await, called by call c (as updated to
\* rec) which continues at `cont` once it returns: the flag check and, when
\* the flag is unset, CREATE TABLE IF NOT EXISTS.
EnsureInitialized(c, rec, cont) ==
    LET a == rec.actor IN
    IF initialized[a]
    THEN /\ calls' = [calls EXCEPT ![c] = [rec EXCEPT !.pc = cont]]
         /\ UNCHANGED <<sql, initRuns>>
    ELSE /\ sql' = [sql EXCEPT ![a] = SqlCreateTable(@)]
         /\ initRuns' = [initRuns EXCEPT ![a] = @ + 1]
         /\ calls' = [calls EXCEPT ![c] = [rec EXCEPT !.pc = "ei_insert", !.ret = cont]]

\* ensureInitialized(), second statement: the seed row.
InitInsert(c) ==
    /\ calls[c].pc = "ei_insert"
    /\ sql' = [sql EXCEPT ![calls[c].actor] = SqlInsertOrIgnore(@, now)]
    /\ calls' = [calls EXCEPT ![c].pc = "ei_flag"]
    /\ UNCHANGED <<now, env, kv, initialized, initRuns, req, billVars>>

\* ensureInitialized(), last line: this.initialized = true, and the return.
InitDone(c) ==
    /\ calls[c].pc = "ei_flag"
    /\ initialized' = [initialized EXCEPT ![calls[c].actor] = TRUE]
    /\ calls' = [calls EXCEPT ![c].pc = calls[c].ret]
    /\ UNCHANGED <<now, env, sql, kv, initRuns, req, billVars>>

\* The actor begins call c, delivered as rec, and runs it to its first await.
Begin(c, rec) ==
    LET a == rec.actor IN
    CASE rec.method \in {"query", "queryOne", "exec"} ->
           /\ EnsureInitialized(c, rec, "stmt")
           /\ UNCHANGED kv
      [] rec.method = "getStorageStats" ->
           /\ EnsureInitialized(c, rec, "stats")
           /\ UNCHANGED kv
      [] rec.method = "setCreatorIfNotSet" ->
           /\ EnsureInitialized(c, rec, "sc_query")
           /\ UNCHANGED kv
      [] rec.method = "generateInternalToken" ->
           /\ calls' = [calls EXCEPT ![c] =
                [rec EXCEPT !.pc = "done", !.status = "ok",
                            !.token = SignInternalToken(rec.a1, rec.a2,
                                                        env.INTERNAL_SECRET, now)]]
           /\ UNCHANGED <<sql, kv, initRuns>>
      [] rec.method = "fetch" /\ rec.a1 = "/health" ->
           /\ EnsureInitialized(c, rec, "health")
           /\ UNCHANGED kv
      [] rec.method = "fetch" /\ rec.a1 = "/storage-stats" ->
           /\ EnsureInitialized(c, rec, "stats")
           /\ UNCHANGED kv
      [] rec.method = "fetch" /\ rec.a1 = "/store-org-id" ->
           IF ~Falsy(rec.a2)
           THEN /\ kv' = [kv EXCEPT ![a] = rec.a2]
                /\ calls' = [calls EXCEPT ![c] =
                     [rec EXCEPT !.pc = "done", !.status = "ok", !.http = 200]]
                /\ UNCHANGED <<sql, initRuns>>
           ELSE /\ calls' = [calls EXCEPT ![c] =
                     [rec EXCEPT !.pc = "done", !.status = "ok", !.http = 400]]
                /\ UNCHANGED <<sql, kv, initRuns>>
      [] OTHER ->
           /\ calls' = [calls EXCEPT ![c] =
                [rec EXCEPT !.pc = "done", !.status = "ok", !.http = 404]]
           /\ UNCHANGED <<sql, kv, initRuns>>

\* A stub.query that reaches one actor whatever the tenant.
StubQueryShared(r, tenant, stmt) ==
    Begin(r, [NewCall("org_1", "query", stmt, NULL, NULL) EXCEPT
                !.fresh = ~initialized["org_1"] /\ ~sql["org_1"].exists])

\* stub.query(statement) from another isolate (a billing request r): the
\* tenant's actor begins the call.
StubQuery(r, tenant, stmt) ==
    Begin(r, [NewCall(tenant, "query", stmt, NULL, NULL) EXCEPT
                !.fresh = ~initialized[tenant] /\ ~sql[tenant].exists])

\* The actor whose operations SpecStorage exercises.
StorageActor == "org_1"

\* A client invokes one operation on the actor, which begins it.  `fresh`
\* records that the actor had never been initialized, `creatorAtCall` the
\* creator recorded when setCreatorIfNotSet is called.
Invoke(c) ==
    /\ calls[c].pc = "idle"
    /\ \A d \in Procs : d < c => calls[d].pc # "idle"
    /\ \E i \in Invocations :
         Begin(c, [NewCall(StorageActor, i[1], i[2], i[3], i[4]) EXCEPT
                     !.fresh = ~initialized[StorageActor] /\ ~sql[StorageActor].exists,
                     !.creatorAtCall = IF i[1] = "setCreatorIfNotSet"
                                       THEN CreatorOf(StorageActor) ELSE NULL])
    /\ UNCHANGED <<now, env, initialized, req, billVars>>

\* query / queryOne / exec after `await this.ensureInitialized()`: the
\* caller's statement runs; queryOne returns results[0] ?? null.
RunStatement(c) ==
    LET rec == calls[c]
        r == SqlExec(sql[rec.actor], rec.stmt)
    IN
    /\ rec.pc = "stmt"
    /\ sql' = [sql EXCEPT ![rec.actor] = r.db]
    /\ calls' = [calls EXCEPT ![c] =
         [rec EXCEPT !.pc = "done",
                     !.status = IF r.ok THEN "ok" ELSE "error",
                     !.out = IF rec.method = "exec" THEN <<>> ELSE r.out,
                     !.one = IF rec.method = "queryOne" /\ r.out # <<>>
                             THEN r.out[1] ELSE NULL]]
    /\ UNCHANGED <<now, env, kv, initialized, initRuns, req, billVars>>

\* getStorageStats (also behind fetch /storage-stats) after initialization.
Stats(c) ==
    /\ calls[c].pc = "stats"
    /\ calls' = [calls EXCEPT ![c] =
         [@ EXCEPT !.pc = "done", !.status = "ok",
                   !.bytes = DatabaseSize(sql[calls[c].actor]),
                   !.http = IF calls[c].method = "fetch" THEN 200 ELSE 0]]
    /\ UNCHANGED <<now, env, sql, kv, initialized, initRuns, req, billVars>>

\* fetch /health after initialization.
Health(c) ==
    /\ calls[c].pc = "health"
    /\ calls' = [calls EXCEPT ![c] = [@ EXCEPT !.pc = "done", !.status = "ok", !.http = 200]]
    /\ UNCHANGED <<now, env, sql, kv, initialized, initRuns, req, billVars>>

\* setCreatorIfNotSet: the call of queryOne -> query, up to the await of
\* query's own ensureInitialized().
CreatorQuery(c) ==
    /\ calls[c].pc = "sc_query"
    /\ EnsureInitialized(c, calls[c], "sc_select")
    /\ UNCHANGED <<now, env, kv, initialized, req, billVars>>

\* setCreatorIfNotSet: the SELECT of creator_user_id; current = results[0] ?? null.
CreatorSelect(c) ==
    LET rec == calls[c]
        r == SqlExec(sql[rec.actor], SelectCreator)
    IN
    /\ rec.pc = "sc_select"
    /\ calls' = [calls EXCEPT ![c] =
         IF r.ok
         THEN [rec EXCEPT !.pc = "sc_check",
                          !.current = IF r.out = <<>> THEN "norow" ELSE r.out[1]]
         ELSE [rec EXCEPT !.pc = "done", !.status = "error"]]
    /\ UNCHANGED <<now, env, sql, kv, initialized, initRuns, req, billVars>>

\* A test that takes every row read for one without a creator.
CreatorAlwaysUnset(current) == TRUE

\* if (!current?.creator_user_id): a missing row and an unset creator both
\* count as unset.
CreatorUnset(current) == current = "norow" \/ Falsy(current)

\* setCreatorIfNotSet: the test of the row read, and when no creator is
\* recorded the call of exec (its arguments, Date.now() among them, are
\* evaluated here) up to the await of exec's ensureInitialized().
CreatorCheck(c) ==
    LET rec == calls[c] IN
    /\ rec.pc = "sc_check"
    /\ IF CreatorUnset(rec.current)
       THEN EnsureInitialized(c,
                [rec EXCEPT !.stmt = UpdateCreator(rec.a1, OrNull(rec.a2), now)],
                "sc_update")
       ELSE /\ calls' = [calls EXCEPT ![c] = [rec EXCEPT !.pc = "done", !.status = "ok"]]
            /\ UNCHANGED <<sql, initRuns>>
    /\ UNCHANGED <<now, env, kv, initialized, req, billVars>>

\* setCreatorIfNotSet: the UPDATE of creator_user_id, creator_email, updated_at.
CreatorUpdate(c) ==
    LET rec == calls[c]
        r == SqlExec(sql[rec.actor], rec.stmt)
    IN
    /\ rec.pc = "sc_update"
    /\ sql' = [sql EXCEPT ![rec.actor] = r.db]
    /\ calls' = [calls EXCEPT ![c] =
         [rec EXCEPT !.pc = "done", !.status = IF r.ok THEN "ok" ELSE "error"]]
    /\ UNCHANGED <<now, env, kv, initialized, initRuns, req, billVars>>

\* An actor that serves no call while a request of its tenant awaits an
\* answer from outside.
StatementStepExclusive(c) ==
    /\ \A r \in Procs :
         ~(/\ bill[r].orgId = calls[c].actor
           /\ bill[r].pc \in {"clerk_user", "clerk_org", "create", "session",
                               "plan", "sub_list", "portal"})
    /\ \/ InitInsert(c)
       \/ InitDone(c)
       \/ RunStatement(c)

\* One step of a query, queryOne or exec call inside the actor.
StatementStep(c) ==
    \/ InitInsert(c)
    \/ InitDone(c)
    \/ RunStatement(c)

\* One step of a call inside the actor.
ActorStep(c) ==
    \/ StatementStep(c)
    \/ Stats(c)
    \/ Health(c)
    \/ CreatorQuery(c)
    \/ CreatorSelect(c)
    \/ CreatorCheck(c)
    \/ CreatorUpdate(c)

\* The host evicts an idle actor: the next call constructs a new object
\* (initialized = false) over the same durable store.
Restart(a) ==
    /\ initialized[a]
    /\ \A c \in Procs : InFlight(c) => calls[c].actor # a
    /\ initialized' = [initialized EXCEPT ![a] = FALSE]
    /\ initRuns' = [initRuns EXCEPT ![a] = 0]
    /\ UNCHANGED <<now, env, sql, kv, calls, req, billVars>>

Tick(max) ==
    /\ now < max * ClockStep
    /\ now' = now + ClockStep
    /\ UNCHANGED <<env, sql, kv, initialized, initRuns, calls, req, billVars>>


\* ------------------------------------------------------- auth middlewares

ISSUER_URL == "https://clerk.example.com"

\* A bearer token as jwtVerify sees it: who signed it, whether the signature
\* still matches the payload, and the claims.
NoClerkToken ==
    [kind |-> "none", signer |-> NULL, intact |-> FALSE, iss |-> NULL, exp |-> 0,
     sub |-> NULL, org_id |-> NULL, org_role |-> NULL]

\* The bearer tokens a client may present: signed by the identity provider or
\* by anyone else, intact or tampered with, with any issuer, expiry and claims.
ClerkTokens ==
    {[kind |-> "jwt", signer |-> k, intact |-> i, iss |-> u, exp |-> e,
      sub |-> s, org_id |-> o[1], org_role |-> o[2]] :
        k \in {"clerk", "attacker"}, i \in BOOLEAN,
        u \in {ISSUER_URL, "https://evil.example.com"},
        e \in {ClockStep, (MaxAuthTicks + 1) * ClockStep},
        s \in UserIds,
        o \in {<<NULL, NULL>>, <<"org_1", "org:admin">>, <<"org_1", "org:member">>}}
    \cup {[NoClerkToken EXCEPT !.kind = "garbage"]}

\* The Authorization header: absent, or a scheme and its credentials.
NoAuthorization == [scheme |-> "none", token |-> NoClerkToken]
AuthorizationHeaders ==
    {NoAuthorization}
    \cup {[scheme |-> "Basic ", token |-> NoClerkToken],
          [scheme |-> "bearer ", token |-> [NoClerkToken EXCEPT !.kind = "garbage"]]}
    \cup {[scheme |-> "Bearer ", token |-> t] : t \in ClerkTokens}

\* authHeader?.startsWith('Bearer ')
StartsWithAnyScheme(authHeader) == authHeader.scheme # "none"
StartsWithBearer(authHeader) == authHeader.scheme = "Bearer "

\* jose jwtVerify(token, JWKS, {issuer}) without the signature check.
JwtVerifyClerkUnsigned(token, issuer, t, jwks) ==
    /\ token.kind = "jwt"
    /\ token.iss = issuer
    /\ t < token.exp

\* jose jwtVerify(token, JWKS, {issuer}): the token parses, the key set was
\* fetched and holds the signing key, the signature matches, the issuer is
\* the expected one and the token has not expired.  FALSE stands for each of
\* the exceptions jwtVerify throws.
JwtVerifyClerk(token, issuer, t, jwks) ==
    /\ token.kind = "jwt"
    /\ jwks = "ok"
    /\ token.signer = "clerk"
    /\ token.intact
    /\ token.iss = issuer
    /\ t < token.exp

\* The exception jwtVerify(token, JWKS, {issuer}) throws, NULL when it
\* resolves: jose checks the token's shape, then the key and the signature,
\* then the claims.
ClerkVerifyError(token, issuer, t, jwks) ==
    IF token.kind # "jwt" THEN "JWSInvalid: Invalid Compact JWS"
    ELSE IF jwks # "ok" THEN "JWKSTimeout: request timed out"
    ELSE IF token.signer # "clerk" THEN "JWKSNoMatchingKey: no applicable key found"
    ELSE IF ~token.intact THEN "JWSSignatureVerificationFailed: signature verification failed"
    ELSE IF token.iss # issuer THEN "JWTClaimValidationFailed: unexpected iss claim value"
    ELSE IF ~(t < token.exp) THEN "JWTExpired: exp claim timestamp check failed"
    ELSE NULL

\* new URL(`${issuerUrl}/.well-known/jwks.json`) throws on anything but a URL.
IsUrl(u) == u = ISSUER_URL

\* jose jwtVerify(internalToken, secretKey) without the expiry check.
JwtVerifyInternalNoExpiry(token, secret, t) ==
    /\ token.kind = "jwt"
    /\ token.key = secret

\* jose jwtVerify(internalToken, secretKey): an HS256 signature under the
\* secret and an exp claim still in the future.
JwtVerifyInternal(token, secret, t) ==
    /\ token.kind = "jwt"
    /\ token.key = secret
    /\ t < token.exp

\* The exception jwtVerify(internalToken, secretKey) throws, NULL when it
\* resolves.
InternalVerifyError(token, secret, t) ==
    IF token.kind # "jwt" THEN "JWSInvalid: Invalid Compact JWS"
    ELSE IF token.key # secret
    THEN "JWSSignatureVerificationFailed: signature verification failed"
    ELSE IF ~(t < token.exp) THEN "JWTExpired: exp claim timestamp check failed"
    ELSE NULL

\* !internalToken: the header is absent or empty.
NoInternalToken(token) == token.kind \in {"none", "empty"}

NoContext == [userId |-> NULL, orgId |-> NULL, orgRole |-> NULL]

\* The context with a role granted when the token carries none.
ClerkContextDefaultRole(token) ==
    [userId |-> token.sub, orgId |-> OrNull(token.org_id),
     orgRole |-> IF Falsy(token.org_role) THEN "org:member" ELSE token.org_role]

\* c.set('userId', sub); c.set('orgId', org_id || null); c.set('orgRole', org_role || null)
ClerkContext(token) ==
    [userId |-> token.sub, orgId |-> OrNull(token.org_id),
     orgRole |-> OrNull(token.org_role)]

\* The context with the administrator role granted to every internal token.
InternalContextAsAdmin(token) ==
    [userId |-> token.userId, orgId |-> token.orgId, orgRole |-> "org:admin"]

\* c.set('userId', payload.userId); c.set('orgId', payload.orgId); c.set('orgRole', null)
InternalContext(token) ==
    [userId |-> token.userId, orgId |-> token.orgId, orgRole |-> NULL]

\* The request before any middleware has run.  failure is the exception the
\* middleware's catch block caught (and logged), error and details the
\* members of the JSON body it answered.  cfgChecked, jwksResolved,
\* verifyCalled and handlerInvoked record what has run for it; stage is the
\* middleware that authenticated it; verifiedAt and jwks are the time and the
\* key-set fetch of the verification.
NoRequest ==
    [mount |-> "none", authorization |-> NoAuthorization, internalToken |-> NoToken,
     pc |-> "idle", status |-> 0, error |-> NULL, ctx |-> NoContext,
     ranClerk |-> FALSE, ranInternal |-> FALSE, cfgChecked |-> FALSE,
     jwksResolved |-> FALSE, verifyCalled |-> FALSE, verified |-> FALSE,
     verifiedAt |-> 0, jwks |-> "none", handlerInvoked |-> FALSE, stage |-> "none",
     failure |-> NULL, details |-> NULL]

\* c.json({error, details: error.message}, status)
RespondWithReason(r, status, error) ==
    [r EXCEPT !.pc = "done", !.status = status, !.error = error, !.details = r.failure]

\* c.json({error}, status)
Respond(r, status, error) == [r EXCEPT !.pc = "done", !.status = status, !.error = error]

\* The X-Internal-Token values a client may present: none, an empty header,
\* something that is no JWT, a token the actor minted, and tokens signed by
\* someone else with their own key or with the development secret.
ForgedInternalTokens ==
    {[kind |-> "jwt", key |-> k, orgId |-> "org_1", userId |-> "user_2",
      iat |-> 0, exp |-> e] :
        k \in {"attacker-key", DEFAULT_INTERNAL_SECRET},
        e \in {ClockStep, (MaxAuthTicks + 1) * ClockStep}}

InternalTokenHeaders ==
    {NoToken, [NoToken EXCEPT !.kind = "empty"], [NoToken EXCEPT !.kind = "garbage"]}
    \cup {calls[1].token : x \in {1}}
    \cup ForgedInternalTokens

\* The middleware a request meets.  app.use('/api/*', clerkAuth) mounts
\* clerkAuth on every API route; internalAuth is exported for routes between
\* actors and mounted on none, so the model also sends requests to it directly
\* (mount "internal").
StageByHeader(r) ==
    IF ~NoInternalToken(r.internalToken) /\ r.authorization.scheme = "none"
    THEN "internalAuth" ELSE "clerkAuth"

StageFor(r) == IF r.mount = "api" THEN "clerkAuth" ELSE "internalAuth"

\* A bearer token the identity provider issued.
GoodClerkToken ==
    [kind |-> "jwt", signer |-> "clerk", intact |-> TRUE, iss |-> ISSUER_URL,
     exp |-> (MaxAuthTicks + 1) * ClockStep, sub |-> "user_1",
     org_id |-> "org_1", org_role |-> "org:admin"]

\* The requests that arrive: on an API route with any Authorization header,
\* without or with an internal token beside it; at internalAuth with any
\* X-Internal-Token, without or with a bearer token beside it.
Arrivals ==
    {<<"api", h, x>> : h \in AuthorizationHeaders,
                       x \in {NoToken, calls[1].token} \cup
                             {t \in ForgedInternalTokens : t.exp > ClockStep}}
    \cup {<<"internal", h, x>> :
             h \in {NoAuthorization, [scheme |-> "Bearer ", token |-> GoodClerkToken]},
             x \in InternalTokenHeaders}

\* A request arrives.
Receive ==
    /\ req.pc = "idle"
    /\ \E a \in Arrivals :
         req' = [NoRequest EXCEPT !.mount = a[1], !.authorization = a[2],
                                  !.internalToken = a[3], !.pc = "recv"]
    /\ UNCHANGED <<now, env, sql, kv, initialized, initRuns, calls, billVars>>

\* clerkAuth up to the await of jwtVerify: the header check, the
\* configuration check, the key set, the call of jwtVerify.
ClerkAuth ==
    /\ req.pc = "recv"
    /\ StageFor(req) = "clerkAuth"
    /\ LET r == [req EXCEPT !.ranClerk = TRUE] IN
       req' =
         IF ~StartsWithBearer(r.authorization)
         THEN Respond(r, 401, "Unauthorized: Missing or invalid Authorization header")
         ELSE IF Falsy(env.CLERK_ISSUER_URL)
         THEN Respond([r EXCEPT !.cfgChecked = TRUE], 500, "Server configuration error")
         ELSE IF ~IsUrl(env.CLERK_ISSUER_URL)
         THEN Respond([r EXCEPT !.cfgChecked = TRUE, !.failure = "TypeError: Invalid URL"],
                      401, "Unauthorized: Invalid token")
         ELSE [r EXCEPT !.cfgChecked = TRUE, !.jwksResolved = TRUE,
                        !.verifyCalled = TRUE, !.pc = "clerk_verify"]
    /\ UNCHANGED <<now, env, sql, kv, initialized, initRuns, calls, billVars>>

\* clerkAuth after jwtVerify: the context is set and next() called, or the
\* exception is caught.  The fetch of the key set succeeds or fails.
ClerkVerified ==
    /\ req.pc = "clerk_verify"
    /\ \E jwks \in {"ok", "error"} :
         LET r == [req EXCEPT !.verified = TRUE, !.verifiedAt = now, !.jwks = jwks,
                              !.failure = ClerkVerifyError(req.authorization.token,
                                                           env.CLERK_ISSUER_URL, now, jwks)]
         IN
         req' =
           IF JwtVerifyClerk(r.authorization.token, env.CLERK_ISSUER_URL, now, jwks)
           THEN [r EXCEPT !.ctx = ClerkContext(r.authorization.token),
                          !.stage = "clerk", !.handlerInvoked = TRUE, !.pc = "handler"]
           ELSE Respond(r, 401, "Unauthorized: Invalid token")
    /\ UNCHANGED <<now, env, sql, kv, initialized, initRuns, calls, billVars>>

\* internalAuth up to the await of jwtVerify: the header check, the secret.
InternalAuth ==
    /\ req.pc = "recv"
    /\ StageFor(req) = "internalAuth"
    /\ LET r == [req EXCEPT !.ranInternal = TRUE] IN
       req' =
         IF NoInternalToken(r.internalToken)
         THEN Respond(r, 401, "Unauthorized: Missing internal token")
         ELSE [r EXCEPT !.verifyCalled = TRUE, !.pc = "internal_verify"]
    /\ UNCHANGED <<now, env, sql, kv, initialized, initRuns, calls, billVars>>

\* internalAuth after jwtVerify.
InternalVerified ==
    /\ req.pc = "internal_verify"
    /\ LET r == [req EXCEPT !.verified = TRUE, !.verifiedAt = now,
                            !.failure = InternalVerifyError(req.internalToken,
                                           EffectiveSecret(env.INTERNAL_SECRET), now)]
       IN
       req' =
         IF JwtVerifyInternal(r.internalToken, EffectiveSecret(env.INTERNAL_SECRET), now)
         THEN [r EXCEPT !.ctx = InternalContext(r.internalToken),
                        !.stage = "internal", !.handlerInvoked = TRUE, !.pc = "handler"]
         ELSE Respond(r, 401, "Unauthorized: Invalid internal token")
    /\ UNCHANGED <<now, env, sql, kv, initialized, initRuns, calls, billVars>>

\* The route handler behind the middleware answers.
Handler ==
    /\ req.pc = "handler"
    /\ req' = [req EXCEPT !.pc = "done", !.status = 200]
    /\ UNCHANGED <<now, env, sql, kv, initialized, initRuns, calls, billVars>>

\* An actor mints an internal token (generateInternalToken) for a call to
\* another actor.
Mint ==
    /\ calls[1].pc = "idle"
    /\ \E o \in OrgIds, u \in UserIds :
         Begin(1, NewCall(o, "generateInternalToken", NoStmt, o, u))
    /\ UNCHANGED <<now, env, initialized, req, billVars>>

\* ----------------------------------------------------------- billing routes

Routes == {"subscription", "customer-session", "portal", "usage"}

\* PLAN_LIMITS; Infinity is written as -1.
PLAN_LIMITS ==
    [FREE |-> [maxItems |-> 10, maxStorage |-> 100],
     STANDARD |-> [maxItems |-> 100, maxStorage |-> 1000],
     ENTERPRISE |-> [maxItems |-> -1, maxStorage |-> -1]]

\* a < b for a number a and a limit b that may be Infinity.
LessThanLimit(a, b) == b = -1 \/ a < b

\* The Identity Contexts clerkAuth hands to a handler: those of the tokens it
\* accepts, for the tenants of the model.
Contexts ==
    {x \in {ClerkContext(t) : t \in {u \in ClerkTokens : u.kind = "jwt"}} :
        \/ x.orgId = NULL /\ x.userId \in Tenants
        \/ x.orgId # NULL /\ x.userId = "user_1" /\ x.orgRole = "org:admin"
        \/ x.orgId # NULL /\ x.userId = "user_2" /\ x.orgRole = "org:member"}

\* c.json(...): status, the error envelope, and the fields of the success body.
NoResponse ==
    [status |-> 0, error |-> NULL, details |-> NULL, planType |-> NULL,
     hasCustomer |-> FALSE, customerId |-> NULL, subscription |-> NULL,
     clientSecret |-> NULL, url |-> NULL, maxItems |-> 0, items |-> 0,
     canAddMore |-> FALSE]

\* The numbers of items a tenant may actually hold when it asks for its usage.
ItemCounts == {5, 10}

\* A billing request.  listed is what stripe.subscriptions.list answered
\* inside getSubscriptionPlanType, tenantItems the number of items the tenant
\* actually holds when GET /usage is asked, threw the exception the handler's
\* try block caught.  existing is the stripe_customer_id its query returned
\* ("norow" when no row came back), creates and lookups count its calls of
\* stripe.customers.create and of the identity provider, unsetAtInvoke
\* records that the tenant had no customer id when the request began.
IdleRequest ==
    [route |-> NULL, ctx |-> NoContext, userId |-> NULL, orgId |-> NULL,
     pc |-> "idle", existing |-> NULL, customerName |-> NULL,
     customerEmail |-> NULL, customerId |-> NULL, returned |-> FALSE,
     planType |-> NULL, creates |-> 0, lookups |-> 0, unsetAtInvoke |-> FALSE,
     listed |-> NULL, tenantItems |-> 0, threw |-> NULL, resp |-> NoResponse]

\* c.json({error}, status) and c.json({error, details}, 500)
Fail(b, status, error, details) ==
    [b EXCEPT !.pc = "done", !.resp = [NoResponse EXCEPT !.status = status,
                                       !.error = error, !.details = details]]

\* The error message of a route's catch block.
CatchMessage(route) ==
    CASE route = "subscription" -> "Failed to fetch subscription"
      [] route = "customer-session" -> "Failed to create customer session"
      [] route = "portal" -> "Failed to create portal session"
      [] OTHER -> "Failed to fetch usage"

\* A catch block that answers as if the call had succeeded.
CaughtAsSuccess(b, message) ==
    [b EXCEPT !.pc = "done", !.threw = message,
              !.resp = [NoResponse EXCEPT !.status = 200, !.clientSecret = "cuss_secret",
                                          !.customerId = b.customerId,
                                          !.url = "https://billing.stripe.com/session"]]

\* The catch block of a route: 500 with the route's message and the
\* exception's message as details.
Caught(b, message) ==
    Fail([b EXCEPT !.threw = message], 500, CatchMessage(b.route), message)

\* existingOrg.length > 0 && existingOrg[0].stripe_customer_id, never true.
NeverHasCustomerId(existing) == FALSE

\* existingOrg.length > 0 && existingOrg[0].stripe_customer_id
HasCustomerId(existing) == existing # "norow" /\ ~Falsy(existing)

InGetOrCreate(b) ==
    /\ b.route = "customer-session"
    /\ b.pc \in {"read", "clerk_user", "clerk_org", "create", "write"}

\* A portal that asks no role of anyone.
AdminRequiredNever(orgId, userId, orgRole) == FALSE

\* POST /portal: orgId !== userId && orgRole !== 'org:admin', the condition
\* of the 403 answer.
AdminRequired(orgId, userId, orgRole) == orgId # userId /\ orgRole # "org:admin"

\* A handler of one of `routes` begins, behind clerkAuth: the checks before
\* the try block and the first stub.query, which the tenant's actor begins.
Request(r, routes) ==
    /\ bill[r].pc = "idle"
    /\ \A d \in Procs : d < r => bill[d].pc # "idle"
    /\ \E route \in routes, ctx \in Contexts,
          n \in ItemCounts :
         LET userId == ctx.userId
             orgId == IF Falsy(ctx.orgId) THEN userId ELSE ctx.orgId
             b == [IdleRequest EXCEPT !.route = route, !.ctx = ctx,
                                      !.tenantItems = IF route = "usage" THEN n ELSE 0,
                                      !.userId = userId, !.orgId = orgId,
                                      !.unsetAtInvoke =
                                         \A x \in sql[orgId].rows :
                                            x.id = 1 => Falsy(x.stripe_customer_id)]
         IN
         IF Falsy(orgId)
         THEN /\ bill' = [bill EXCEPT ![r] = Fail(b, 401, "Authentication required", NULL)]
              /\ UNCHANGED <<sql, kv, initRuns, calls, overlap>>
         ELSE IF route = "portal" /\ AdminRequired(orgId, userId, ctx.orgRole)
         THEN /\ bill' = [bill EXCEPT ![r] =
                     Fail(b, 403, "Forbidden: Admin permission required", NULL)]
              /\ UNCHANGED <<sql, kv, initRuns, calls, overlap>>
         ELSE IF Falsy(env.STRIPE_SECRET_KEY)
         THEN /\ bill' = [bill EXCEPT ![r] = Fail(b, 500, "Stripe not configured", NULL)]
              /\ UNCHANGED <<sql, kv, initRuns, calls, overlap>>
         ELSE /\ bill' = [bill EXCEPT ![r] = [b EXCEPT !.pc = "read"]]
              /\ StubQuery(r, orgId, SelectCustomer)
              /\ overlap' =
                   IF route = "customer-session" /\
                      \E d \in Procs : d # r /\ InGetOrCreate(bill[d]) /\ bill[d].orgId = orgId
                   THEN overlap \cup {orgId} ELSE overlap
    /\ UNCHANGED <<now, env, initialized, req, stripe>>

\* A request to any billing route arrives.
BeginRequest(r) == Request(r, Routes)

\* A POST /customer-session request arrives.
BeginCustomerSession(r) == Request(r, {"customer-session"})

\* The usage summary of GET /usage; the usage count is the constant 0.
UsageResponse(planType) ==
    [NoResponse EXCEPT !.status = 200, !.planType = planType,
                       !.maxItems = PLAN_LIMITS[planType].maxItems,
                       !.items = 0,
                       !.canAddMore = LessThanLimit(0, PLAN_LIMITS[planType].maxItems)]

\* The query for stripe_customer_id has returned (or thrown): each route
\* goes on with the value read, up to its next await.
ReadDone(r) ==
    LET b0 == bill[r]
        call == calls[r]
        existing == IF call.out = <<>> THEN "norow" ELSE call.out[1]
        b == [b0 EXCEPT !.existing = existing]
    IN
    /\ b0.pc = "read"
    /\ call.pc = "done"
    /\ calls' = [calls EXCEPT ![r] = IdleCall]
    /\ bill' = [bill EXCEPT ![r] =
         IF call.status # "ok" THEN Caught(b0, "storage error")
         ELSE CASE b.route = "subscription" ->
                   IF ~HasCustomerId(existing)
                   THEN [b EXCEPT !.pc = "done",
                                  !.resp = [NoResponse EXCEPT !.status = 200,
                                                              !.planType = "FREE",
                                                              !.hasCustomer = FALSE]]
                   ELSE [b EXCEPT !.customerId = existing, !.pc = "plan"]
                [] b.route = "usage" ->
                   IF HasCustomerId(existing)
                   THEN [b EXCEPT !.customerId = existing, !.pc = "plan"]
                   ELSE [b EXCEPT !.pc = "done", !.planType = "FREE",
                                  !.resp = UsageResponse("FREE")]
                [] b.route = "portal" ->
                   IF ~HasCustomerId(existing)
                   THEN Fail(b, 404, "No billing account found. Please subscribe first.", NULL)
                   ELSE [b EXCEPT !.customerId = existing, !.pc = "portal"]
                [] OTHER ->
                   IF HasCustomerId(existing)
                   THEN [b EXCEPT !.customerId = existing, !.returned = TRUE,
                                  !.pc = "session"]
                   ELSE IF Falsy(env.CLERK_SECRET_KEY)
                   THEN [b EXCEPT !.customerName = b.orgId, !.pc = "create"]
                   ELSE IF b.orgId = b.userId
                   THEN [b EXCEPT !.customerName = b.orgId, !.pc = "clerk_user"]
                   ELSE [b EXCEPT !.customerName = b.orgId, !.pc = "clerk_org"]]
    /\ UNCHANGED <<now, env, sql, kv, initialized, initRuns, req, stripe, overlap>>

\* What the identity provider answers for a user: nothing (not ok, or the
\* fetch threw), or the user with or without a name and an e-mail address.
ClerkUserAnswers ==
    {[found |-> FALSE, name |-> NULL, email |-> NULL],
     [found |-> TRUE, name |-> "Ada Lovelace", email |-> "a@example.com"],
     [found |-> TRUE, name |-> "", email |-> NULL]}

ClerkOrganizationAnswers ==
    {[found |-> FALSE, name |-> NULL], [found |-> TRUE, name |-> "Acme"]}

\* getClerkUser has answered: customerName = fullName || customerEmail || orgId.
ClerkUser(r) ==
    /\ bill[r].pc = "clerk_user"
    /\ \E a \in ClerkUserAnswers :
         bill' = [bill EXCEPT ![r] =
           [@ EXCEPT !.lookups = @ + 1, !.pc = "create",
                     !.customerEmail = IF a.found THEN a.email ELSE NULL,
                     !.customerName =
                        IF ~a.found THEN bill[r].orgId
                        ELSE IF ~Falsy(a.name) THEN a.name
                        ELSE IF ~Falsy(a.email) THEN a.email
                        ELSE bill[r].orgId]]
    /\ UNCHANGED <<now, env, sql, kv, initialized, initRuns, calls, req, stripe, overlap>>

\* getClerkOrganization has answered: if (org?.name) customerName = org.name.
ClerkOrganization(r) ==
    /\ bill[r].pc = "clerk_org"
    /\ \E a \in ClerkOrganizationAnswers :
         bill' = [bill EXCEPT ![r] =
           [@ EXCEPT !.lookups = @ + 1, !.pc = "create",
                     !.customerName = IF a.found /\ ~Falsy(a.name) THEN a.name
                                      ELSE bill[r].orgId]]
    /\ UNCHANGED <<now, env, sql, kv, initialized, initRuns, calls, req, stripe, overlap>>

\* stripe.customers.create has answered: the new customer's id is sent to
\* the actor (UPDATE ... SET stripe_customer_id = ?), or the call threw.
CustomerCreate(r) ==
    LET b == bill[r]
        id == CusIds[Len(stripe) + 1]
    IN
    /\ b.pc = "create"
    /\ Len(stripe) < Len(CusIds)
    /\ \/ /\ stripe' = Append(stripe,
                 [id |-> id, name |-> b.customerName, email |-> b.customerEmail,
                  organization_id |-> b.orgId, user_id |-> b.userId])
          /\ bill' = [bill EXCEPT ![r] =
                 [b EXCEPT !.creates = @ + 1, !.customerId = id, !.pc = "write"]]
          /\ StubQuery(r, b.orgId, UpdateCustomer(id))
       \/ /\ bill' = [bill EXCEPT ![r] =
                 Caught([b EXCEPT !.creates = @ + 1], "stripe: customers.create failed")]
          /\ UNCHANGED <<stripe, calls, sql, kv, initRuns>>
    /\ UNCHANGED <<now, env, initialized, req, overlap>>

\* The UPDATE has returned: getOrCreateStripeCustomer returns customer.id and
\* the route calls stripe.customerSessions.create.
WriteDone(r) ==
    /\ bill[r].pc = "write"
    /\ calls[r].pc = "done"
    /\ calls' = [calls EXCEPT ![r] = IdleCall]
    /\ bill' = [bill EXCEPT ![r] =
         IF calls[r].status # "ok" THEN Caught(bill[r], "storage error")
         ELSE [bill[r] EXCEPT !.returned = TRUE, !.pc = "session"]]
    /\ UNCHANGED <<now, env, sql, kv, initialized, initRuns, req, stripe, overlap>>

\* stripe.customerSessions.create has answered or thrown.
CustomerSession(r) ==
    LET b == bill[r] IN
    /\ b.pc = "session"
    /\ \/ bill' = [bill EXCEPT ![r] =
            [b EXCEPT !.pc = "done",
                      !.resp = [NoResponse EXCEPT !.status = 200,
                                                  !.clientSecret = "cuss_secret",
                                                  !.customerId = b.customerId]]]
       \/ bill' = [bill EXCEPT ![r] = Caught(b, "stripe: customerSessions.create failed")]
    /\ UNCHANGED <<now, env, sql, kv, initialized, initRuns, calls, req, stripe, overlap>>

\* getSubscriptionPlanType without its catch block turning an error into FREE.
GetSubscriptionPlanTypeUncaught(listed) ==
    IF listed = "none" THEN "FREE" ELSE "STANDARD"

\* getSubscriptionPlanType: the active subscriptions listed (limit 1), FREE
\* for none and for any error, STANDARD otherwise.
GetSubscriptionPlanType(listed) ==
    IF listed = "error" THEN "FREE"
    ELSE IF listed = "none" THEN "FREE"
    ELSE "STANDARD"

\* stripe.subscriptions.list has answered inside getSubscriptionPlanType.
PlanResolved(r) ==
    /\ bill[r].pc = "plan"
    /\ \E listed \in {"error", "none", "one"} :
         LET planType == GetSubscriptionPlanType(listed)
             b == [bill[r] EXCEPT !.listed = listed]
         IN
         bill' = [bill EXCEPT ![r] =
           IF b.route = "usage"
           THEN [b EXCEPT !.pc = "done", !.planType = planType,
                          !.resp = UsageResponse(planType)]
           ELSE IF planType # "FREE"
           THEN [b EXCEPT !.planType = planType, !.pc = "sub_list"]
           ELSE [b EXCEPT !.pc = "done", !.planType = planType,
                          !.resp = [NoResponse EXCEPT !.status = 200,
                                                      !.planType = planType,
                                                      !.hasCustomer = TRUE,
                                                      !.customerId = b.customerId]]]
    /\ UNCHANGED <<now, env, sql, kv, initialized, initRuns, calls, req, stripe, overlap>>

\* GET /subscription: the second stripe.subscriptions.list (with expand) has
\* answered or thrown; subscription = data[0] || null.
SubscriptionListed(r) ==
    LET b == bill[r] IN
    /\ b.pc = "sub_list"
    /\ \E listed \in {"error", "none", "one"} :
         bill' = [bill EXCEPT ![r] =
           IF listed = "error" THEN Caught(b, "stripe: subscriptions.list failed")
           ELSE [b EXCEPT !.pc = "done",
                          !.resp = [NoResponse EXCEPT
                                      !.status = 200, !.planType = b.planType,
                                      !.hasCustomer = TRUE, !.customerId = b.customerId,
                                      !.subscription = IF listed = "one" THEN "sub_1"
                                                       ELSE NULL]]]
    /\ UNCHANGED <<now, env, sql, kv, initialized, initRuns, calls, req, stripe, overlap>>

\* POST /portal: stripe.billingPortal.sessions.create has answered or thrown.
PortalSession(r) ==
    LET b == bill[r] IN
    /\ b.pc = "portal"
    /\ \/ bill' = [bill EXCEPT ![r] =
            [b EXCEPT !.pc = "done",
                      !.resp = [NoResponse EXCEPT !.status = 200,
                                                  !.url = "https://billing.stripe.com/session"]]]
       \/ bill' = [bill EXCEPT ![r] = Caught(b, "stripe: billingPortal.sessions.create failed")]
    /\ UNCHANGED <<now, env, sql, kv, initialized, initRuns, calls, req, stripe, overlap>>

\* One step of a POST /customer-session request outside the actor.
CustomerSessionStep(r) ==
    \/ ReadDone(r)
    \/ ClerkUser(r)
    \/ ClerkOrganization(r)
    \/ CustomerCreate(r)
    \/ WriteDone(r)
    \/ CustomerSession(r)

\* One step of a billing request outside the actor.
BillingStep(r) ==
    \/ CustomerSessionStep(r)
    \/ PlanResolved(r)
    \/ SubscriptionListed(r)
    \/ PortalSession(r)

\* ---------------------------------------------------------- specifications

vars == <<now, env, sql, kv, initialized, initRuns, calls, req, bill, stripe, overlap>>

NoEnv == [CLERK_ISSUER_URL |-> NULL, INTERNAL_SECRET |-> NULL,
          STRIPE_SECRET_KEY |-> NULL, CLERK_SECRET_KEY |-> NULL]

InitActors ==
    /\ now = 0
    /\ sql = [a \in Tenants |-> EmptyDb]
    /\ kv = [a \in Tenants |-> NULL]
    /\ initialized = [a \in Tenants |-> FALSE]
    /\ initRuns = [a \in Tenants |-> 0]
    /\ calls = [c \in Procs |-> IdleCall]

InitIdle ==
    /\ InitActors
    /\ req = NoRequest
    /\ bill = [r \in Procs |-> IdleRequest]
    /\ stripe = <<>>
    /\ overlap = {}

InitStorage ==
    /\ InitIdle
    /\ env \in {[NoEnv EXCEPT !.INTERNAL_SECRET = s] : s \in {NULL, "prod-secret"}}

NextStorage ==
    \/ \E c \in Procs : Invoke(c)
    \/ \E c \in Procs : ActorStep(c)
    \/ \E a \in Tenants : Restart(a)
    \/ Tick(MaxTicks)

SpecStorage == InitStorage /\ [][NextStorage]_vars

InitAuth ==
    /\ InitIdle
    /\ env \in {[NoEnv EXCEPT !.CLERK_ISSUER_URL = i, !.INTERNAL_SECRET = s] :
                  i \in {NULL, ISSUER_URL, "not a url"}, s \in {NULL, "prod-secret"}}

NextAuth ==
    \/ Receive
    \/ ClerkAuth
    \/ ClerkVerified
    \/ InternalAuth
    \/ InternalVerified
    \/ Handler
    \/ Mint
    \/ Tick(MaxAuthTicks)

SpecAuth == InitAuth /\ [][NextAuth]_vars

InitBilling ==
    /\ InitIdle
    /\ env \in {[NoEnv EXCEPT !.CLERK_ISSUER_URL = ISSUER_URL,
                              !.STRIPE_SECRET_KEY = s, !.CLERK_SECRET_KEY = k] :
                  s \in {NULL, "sk_test"}, k \in {NULL, "sk_clerk"}}

NextBilling ==
    \/ \E r \in Procs : BeginRequest(r)
    \/ \E r \in Procs : BillingStep(r)
    \/ \E r \in Procs : StatementStep(r)

SpecBilling == InitBilling /\ [][NextBilling]_vars

\* POST /customer-session requests alone: getOrCreateStripeCustomer through
\* its only caller.
NextCustomer ==
    \/ \E r \in Procs : BeginCustomerSession(r)
    \/ \E r \in Procs : CustomerSessionStep(r)
    \/ \E r \in Procs : StatementStep(r)

SpecCustomer == InitBilling /\ [][NextCustomer]_vars

\* A tenant's store once its actor has run and `cus` has been persisted in it
\* (NULL: no customer yet).
ProvisionedDb(cus) ==
    [exists |-> TRUE,
     rows |-> {[DefaultRow(1, 0) EXCEPT !.stripe_customer_id = cus]}]

\* The customer getOrCreateStripeCustomer creates for tenant t on behalf of
\* user u when the identity provider has no name for it.
PlainCustomer(id, t, u) ==
    [id |-> id, name |-> t, email |-> NULL, organization_id |-> t, user_id |-> u]

\* The tenants as earlier requests may have left them: never touched, with
\* an initialized store and no customer, or with a customer of the provider.
Provisionings ==
    {[sql |-> [a \in Tenants |-> EmptyDb], stripe |-> <<>>],
     [sql |-> [a \in Tenants |-> IF a = "org_1" THEN ProvisionedDb(NULL) ELSE EmptyDb],
      stripe |-> <<>>],
     [sql |-> [a \in Tenants |-> IF a = "org_1" THEN ProvisionedDb("cus_1") ELSE EmptyDb],
      stripe |-> <<PlainCustomer("cus_1", "org_1", "user_1")>>],
     [sql |-> [a \in Tenants |-> IF a = "org_1" THEN ProvisionedDb("cus_1")
                                  ELSE ProvisionedDb("cus_2")],
      stripe |-> <<PlainCustomer("cus_1", "org_1", "user_1"),
                   PlainCustomer("cus_2", "user_1", "user_1")>>]}

InitRoutes ==
    /\ now = 0
    /\ kv = [a \in Tenants |-> NULL]
    /\ calls = [c \in Procs |-> IdleCall]
    /\ req = NoRequest
    /\ bill = [r \in Procs |-> IdleRequest]
    /\ overlap = {}
    /\ env \in {[NoEnv EXCEPT !.CLERK_ISSUER_URL = ISSUER_URL,
                              !.STRIPE_SECRET_KEY = s, !.CLERK_SECRET_KEY = k] :
                  s \in {NULL, "sk_test"}, k \in {NULL, "sk_clerk"}}
    /\ \E p \in Provisionings :
         /\ sql = p.sql
         /\ stripe = p.stripe
         /\ initialized = [a \in Tenants |-> p.sql[a].exists]
         /\ initRuns = [a \in Tenants |-> IF p.sql[a].exists THEN 1 ELSE 0]

\* Requests to all four billing routes, with the clock running.
NextRoutes ==
    \/ \E r \in 1..MaxRequests : BeginRequest(r)
    \/ \E r \in Procs : BillingStep(r)
    \/ \E r \in Procs : StatementStep(r)
    \/ Tick(MaxTicks)

SpecRoutes == InitRoutes /\ [][NextRoutes]_vars

\* The steps of request r that are bound to happen: those of the tenant's
\* actor and of the handler between its awaits, and the answers of the
\* billing provider's SDK, which gives up on a call after its own timeout.
\* The answers to getClerkUser and getClerkOrganization are not among them:
\* they await a plain fetch(), which the code gives no timeout and no
\* AbortSignal.
BoundToHappen(r) ==
    \/ StatementStep(r)
    \/ ReadDone(r)
    \/ WriteDone(r)
    \/ CustomerCreate(r)
    \/ CustomerSession(r)
    \/ PlanResolved(r)
    \/ SubscriptionListed(r)
    \/ PortalSession(r)

\* SpecRoutes with every step that is bound to happen happening eventually.
SpecRoutesLive == SpecRoutes /\ \A r \in Procs : WF_vars(BoundToHappen(r))

\* ------------------------------------------------- the actor's operations

\* The operations whose code awaits ensureInitialized().
Initializes(call) ==
    \/ call.method \in {"query", "queryOne", "exec", "getStorageStats",
                        "setCreatorIfNotSet"}
    \/ call.method = "fetch" /\ call.a1 \in {"/health", "/storage-stats"}

\* The operations the storage actor offers: its methods and its fetch endpoints.
IsOperation(call) ==
    \/ call.method \in Methods \ {"fetch"}
    \/ call.method = "fetch" /\ call.a1 \in {"/health", "/storage-stats", "/store-org-id"}

Succeeded(call) ==
    /\ call.status = "ok"
    /\ call.method = "fetch" => call.http = 200

\* ------------------------------------------------------------------ claims

\* The customers the billing provider holds for tenant t.
CustomersOf(t) == {i \in 1..Len(stripe) : stripe[i].organization_id = t}

\* Request r has come back from getOrCreateStripeCustomer for tenant t.
Returned(r, t) ==
    bill[r].route = "customer-session" /\ bill[r].orgId = t /\ bill[r].returned

\* C1: when two getOrCreateStripeCustomer calls for the same tenant, both
\* begun while stripe_customer_id was unset, have both returned, exactly one
\* customer was created for the tenant, it is the one persisted, and both
\* calls returned its id.
C1_ConcurrentCallsCreateOneCustomer ==
    \A t \in Tenants : \A r1, r2 \in Procs :
        (r1 # r2 /\ Returned(r1, t) /\ Returned(r2, t)
           /\ bill[r1].unsetAtInvoke /\ bill[r2].unsetAtInvoke)
        => /\ Cardinality(CustomersOf(t)) = 1
           /\ \A i \in CustomersOf(t) :
                /\ CustomerOf(t) = stripe[i].id
                /\ bill[r1].customerId = stripe[i].id
                /\ bill[r2].customerId = stripe[i].id

\* C2: once a tenant's stripe_customer_id is set, no step of any API request
\* changes it.
C2_CustomerIdSetAtMostOnce ==
    [][\A t \in Tenants :
         ~Falsy(CustomerOf(t)) => CustomerOf(t)' = CustomerOf(t)]_vars

\* C3: for a tenant whose getOrCreateStripeCustomer calls ran one after the
\* other, a call that has returned returned the persisted id; a call that
\* found the id unset created exactly one customer, tagged with the tenant
\* and the calling user, and returned its id; every call after a returned
\* one returned the same id, having made no create call and no
\* identity-provider lookup.
C3_SequentialCallsReuseCustomer ==
    \A t \in Tenants \ overlap : \A r \in Procs :
        Returned(r, t)
        => /\ bill[r].customerId = CustomerOf(t)
           /\ ~Falsy(bill[r].customerId)
           /\ bill[r].unsetAtInvoke
                => /\ bill[r].creates = 1
                   /\ \E i \in CustomersOf(t) :
                        /\ stripe[i].id = bill[r].customerId
                        /\ stripe[i].user_id = bill[r].userId
           /\ \A q \in Procs :
                (q < r /\ Returned(q, t))
                => /\ bill[r].customerId = bill[q].customerId
                   /\ bill[r].creates = 0
                   /\ bill[r].lookups = 0
           /\ Cardinality(CustomersOf(t)) = 1

\* Two calls for one tenant, one after the other: the first looked the
\* tenant up, created the customer and returned; the second has returned too.
C3_Witness ==
    \E t \in Tenants \ overlap : \E q, r \in Procs :
        /\ q < r
        /\ Returned(q, t) /\ Returned(r, t)
        /\ bill[q].creates = 1 /\ bill[q].lookups = 1
        /\ bill[r].pc = "done" /\ bill[r].resp.status = 200

\* C11: whenever stripe.subscriptions.list inside getSubscriptionPlanType
\* threw, or listed no active subscription, the plan type resolved is FREE
\* and the caller went on to answer 200 with the FREE plan: no error of the
\* provider reached it.  (One active subscription resolves to STANDARD.)
C11_PlanTypeFallsBackToFree ==
    \A r \in Procs :
        /\ bill[r].listed \in {"error", "none"}
             => /\ bill[r].planType = "FREE"
                /\ bill[r].pc = "done"
                /\ bill[r].resp.status = 200
                /\ bill[r].resp.planType = "FREE"
                /\ bill[r].resp.error = NULL
        /\ bill[r].listed = "one" => bill[r].planType = "STANDARD"

\* A GET /subscription or GET /usage request whose subscription list threw
\* inside getSubscriptionPlanType has been answered.
C11_Witness ==
    \E r \in Procs :
        /\ bill[r].route \in {"subscription", "usage"}
        /\ bill[r].listed = "error"
        /\ bill[r].pc = "done"

\* C12: with the billing provider configured, every answer of GET
\* /subscription and GET /usage is a success response, whatever the provider
\* did: a failure of the provider never becomes an error response.
C12_ReadPathsAbsorbProviderFailures ==
    \A r \in Procs :
        (/\ bill[r].route \in {"subscription", "usage"}
         /\ bill[r].pc = "done"
         /\ ~Falsy(env.STRIPE_SECRET_KEY))
        => /\ bill[r].resp.status = 200
           /\ bill[r].resp.error = NULL

C14_CanAddMoreFollowsUsage ==
    \A r \in Procs :
        (bill[r].route = "usage" /\ bill[r].pc = "done" /\ bill[r].resp.status = 200)
        => /\ bill[r].resp.items = bill[r].tenantItems
           /\ bill[r].resp.canAddMore =
                LessThanLimit(bill[r].tenantItems,
                              PLAN_LIMITS[bill[r].resp.planType].maxItems)

\* C15: whenever clerkAuth has let a request through to its handler, the
\* bearer token of the request passed jwtVerify and the Identity Context is
\* that token's: userId its sub claim, orgId its org_id claim or null when
\* absent, orgRole its org_role claim or null when absent.
C15_ClerkContextFromVerifiedToken ==
    (req.handlerInvoked /\ req.stage = "clerk")
    => LET token == req.authorization.token IN
       /\ req.verified
       /\ token.kind = "jwt" /\ token.signer = "clerk" /\ token.intact
       /\ req.ctx.userId = token.sub
       /\ req.ctx.orgId = (IF token.org_id = NULL THEN NULL ELSE token.org_id)
       /\ req.ctx.orgRole = (IF token.org_role = NULL THEN NULL ELSE token.org_role)

\* clerkAuth let through a request whose token carries no organization
\* claims: a personal account.
C15_Witness ==
    /\ req.handlerInvoked /\ req.stage = "clerk"
    /\ req.authorization.token.org_id = NULL
    /\ req.ctx.userId = "user_2"
    /\ req.ctx.orgId = NULL /\ req.ctx.orgRole = NULL

\* C16: whenever internalAuth has let a request through to its handler, the
\* Identity Context holds the userId and orgId claims of the token and no
\* role (orgRole = null), so an administrator check downstream, as the one
\* of POST /portal, denies the request when orgId differs from userId.
C16_InternalContextHasNoRole ==
    (req.handlerInvoked /\ req.stage = "internal")
    => LET orgId == IF Falsy(req.ctx.orgId) THEN req.ctx.userId ELSE req.ctx.orgId IN
       /\ req.ctx.orgRole = NULL
       /\ req.ctx.userId = req.internalToken.userId
       /\ req.ctx.orgId = req.internalToken.orgId
       /\ orgId # req.ctx.userId => AdminRequired(orgId, req.ctx.userId, req.ctx.orgRole)

\* internalAuth let through a request with a token for user_1 of org_1.
C16_Witness ==
    /\ req.handlerInvoked /\ req.stage = "internal"
    /\ req.internalToken.orgId = "org_1" /\ req.internalToken.userId = "user_1"
    /\ req.ctx.orgId = "org_1" /\ req.ctx.userId = "user_1"

\* C17: every step that changes a column of the TenantRecord
\* (stripe_customer_id, creator_user_id, creator_email) also brings its
\* updated_at to the time of the write.
C17_UpdatedAtAdvancesOnEveryWrite ==
    [][\A t \in Tenants :
         (/\ HasRecord(t) /\ HasRecord(t)'
          /\ \/ Record(t)'.stripe_customer_id # Record(t).stripe_customer_id
             \/ Record(t)'.creator_user_id # Record(t).creator_user_id
             \/ Record(t)'.creator_email # Record(t).creator_email)
         => Record(t)'.updated_at = now']_vars

\* The error messages of the middlewares' 401 answers.
GenericAuthErrors ==
    {"Unauthorized: Missing or invalid Authorization header",
     "Unauthorized: Invalid token",
     "Unauthorized: Missing internal token",
     "Unauthorized: Invalid internal token"}

C19_EveryRequestAnswered ==
    \A r \in Procs : (bill[r].pc # "idle") ~> (bill[r].pc = "done")

\* C20: the token generateInternalToken(orgId, userId) returned carries
\* that orgId and userId and expires 3600 seconds after its issue time;
\* presented to internalAuth under the same INTERNAL_SECRET setting it is
\* let through when verified before that time, with an Identity Context of
\* exactly that orgId and userId, and answered 401 when verified at or after it.
C20_MintedTokenRoundTrip ==
    calls[1].pc = "done"
    => LET token == calls[1].token
           presented == /\ req.mount = "internal"
                        /\ req.internalToken = token
                        /\ req.verified
       IN
       /\ token.orgId = calls[1].a1 /\ token.userId = calls[1].a2
       /\ token.exp = token.iat + 3600
       /\ (presented /\ req.verifiedAt < token.iat + 3600)
            => /\ req.handlerInvoked /\ req.stage = "internal"
               /\ req.status # 401
               /\ req.ctx.orgId = calls[1].a1
               /\ req.ctx.userId = calls[1].a2
       /\ (presented /\ req.verifiedAt >= token.iat + 3600)
            => ~req.handlerInvoked /\ req.status = 401

\* A token minted at time 0 was presented to internalAuth, verified later
\* within the hour, and let through.
C20_Witness ==
    /\ calls[1].pc = "done" /\ calls[1].token.iat = 0
    /\ req.mount = "internal" /\ req.internalToken = calls[1].token
    /\ req.verified /\ req.verifiedAt > 0
    /\ req.handlerInvoked

\* C4: within one actor lifetime the initialization body of
\* ensureInitialized (CREATE TABLE + INSERT of the seed row) runs exactly
\* once, also when operations interleave at its awaits before the flag is set.
C4_InitBodyRunsOnce ==
    \A a \in Tenants :
        /\ initRuns[a] <= 1
        /\ initialized[a] => initRuns[a] = 1

\* C5 as stated: any operation of the actor (generateInternalToken and every
\* fetch endpoint included), run first on a never-initialized actor,
\* succeeds and leaves exactly one TenantRecord, the row with id 1.
C5_AnyFirstOperationInitializes ==
    \A c \in Procs :
        (calls[c].pc = "done" /\ calls[c].fresh /\ IsOperation(calls[c]))
            => Succeeded(calls[c]) /\ ExactlyOneRecord(calls[c].actor)

\* C5 as amended: every completed operation that awaits ensureInitialized
\* (query, queryOne, exec, getStorageStats, setCreatorIfNotSet, fetch /health
\* and /storage-stats) has succeeded, and from then on the actor's store
\* holds exactly one TenantRecord, the row with id 1; this covers the
\* operation that ran first on a never-initialized actor.
C5_InitializingOperationLeavesOneRecord ==
    \A c \in Procs :
        (calls[c].pc = "done" /\ Initializes(calls[c]))
            => Succeeded(calls[c]) /\ ExactlyOneRecord(calls[c].actor)

\* C5 witness: an initializing operation that began on a never-initialized
\* actor has completed, the actor was restarted and initialized again, and
\* one record exists.
C5_Witness ==
    \E c, d \in Procs :
        /\ calls[c].pc = "done" /\ calls[c].fresh /\ Initializes(calls[c])
        /\ calls[d].pc = "done" /\ ~calls[d].fresh /\ Initializes(calls[d])
        /\ ExactlyOneRecord(calls[c].actor)

\* C6: once a creator is recorded, no step changes creator_user_id or
\* creator_email (first writer wins, under any sequence or interleaving of
\* setCreatorIfNotSet calls).
C6_FirstWriterWins ==
    [][\A a \in Tenants :
          CreatorOf(a) # NULL =>
              /\ CreatorOf(a)' = CreatorOf(a)
              /\ CreatorEmailOf(a)' = CreatorEmailOf(a)]_vars

\* C7: clerkAuth fails closed.  Whenever the verification of a bearer token
\* has failed for any reason (a signing key that is not the provider's, a
\* signature that does not match, an expired token, another issuer, a token
\* that does not parse, a key set that could not be fetched, an issuer URL
\* that is no URL), the response is 401 and the handler was never invoked,
\* whatever the token's claims.
C7_ClerkAuthFailsClosed ==
    LET token == req.authorization.token IN
    /\ (/\ req.mount = "api"
        /\ req.verified
        /\ \/ token.kind # "jwt"
           \/ token.signer # "clerk"
           \/ ~token.intact
           \/ token.exp <= req.verifiedAt
           \/ token.iss # env.CLERK_ISSUER_URL
           \/ req.jwks # "ok")
         => (req.pc = "done" /\ req.status = 401 /\ ~req.handlerInvoked)
    /\ (/\ req.mount = "api"
        /\ req.pc = "done"
        /\ req.authorization.scheme = "Bearer "
        /\ env.CLERK_ISSUER_URL = "not a url")
         => (req.status = 401 /\ ~req.handlerInvoked)

\* C7 witness: a token signed by an untrusted key, otherwise in order and
\* claiming the administrator role, was verified and answered with 401.
C7_Witness ==
    LET token == req.authorization.token IN
    /\ req.mount = "api" /\ req.pc = "done" /\ req.verified
    /\ token.kind = "jwt" /\ token.signer = "attacker" /\ token.intact
    /\ token.iss = env.CLERK_ISSUER_URL /\ req.verifiedAt < token.exp
    /\ req.jwks = "ok" /\ token.org_role = "org:admin"
    /\ req.status = 401 /\ ~req.handlerInvoked

\* C8: an API request whose Authorization header is missing or does not
\* start with "Bearer " is answered 401 before the configuration check, the
\* key set, the verification and the handler.
C8_MissingBearerRejectedFirst ==
    (/\ req.mount = "api"
     /\ req.pc \notin {"idle", "recv"}
     /\ req.authorization.scheme # "Bearer ")
      => /\ req.pc = "done"
         /\ req.status = 401
         /\ ~req.cfgChecked
         /\ ~req.jwksResolved
         /\ ~req.verifyCalled
         /\ ~req.handlerInvoked

\* C8 witness: a request with another scheme, to a Worker whose issuer URL is
\* not configured, was answered 401 (and not 500).
C8_Witness ==
    /\ req.mount = "api" /\ req.pc = "done"
    /\ req.authorization.scheme = "Basic "
    /\ env.CLERK_ISSUER_URL = NULL
    /\ req.status = 401

\* An X-Internal-Token internalAuth would accept now.
ValidInternalToken(token) ==
    /\ token.kind = "jwt"
    /\ token.key = (IF env.INTERNAL_SECRET = NULL THEN DEFAULT_INTERNAL_SECRET
                    ELSE env.INTERNAL_SECRET)
    /\ now < token.exp

\* A bearer token the provider signed, verified in time against the fetched
\* key set of the configured issuer.
ValidBearerVerified ==
    LET token == req.authorization.token IN
    /\ req.authorization.scheme = "Bearer "
    /\ req.verified /\ req.jwks = "ok"
    /\ token.kind = "jwt" /\ token.signer = "clerk" /\ token.intact
    /\ token.iss = env.CLERK_ISSUER_URL /\ req.verifiedAt < token.exp

\* C9 as stated: the stage is selected by the credential header.  An API
\* request with only a valid X-Internal-Token is authenticated by the
\* internal-token stage, one with only a valid bearer token by the
\* external-token stage, one with neither is rejected before any verification.
C9_StageSelectedByHeader ==
    (req.mount = "api" /\ req.pc = "done") =>
        /\ (req.authorization.scheme = "none" /\ ValidInternalToken(req.internalToken))
             => req.stage = "internal"
        /\ (req.internalToken.kind = "none" /\ ValidBearerVerified)
             => req.stage = "clerk"
        /\ (req.authorization.scheme = "none" /\ req.internalToken.kind = "none")
             => (req.status = 401 /\ ~req.verifyCalled)

\* C9 as amended: every API request meets the external-token stage only.
\* internalAuth never runs for it; a request without a bearer Authorization
\* header (with a valid X-Internal-Token or with no credential at all) is
\* answered 401 by clerkAuth before any verification; a request with a valid
\* bearer token is authenticated by clerkAuth.
C9_ApiAuthenticatedByClerkOnly ==
    req.mount = "api" =>
        /\ ~req.ranInternal
        /\ req.stage # "internal"
        /\ (req.pc = "done" /\ req.authorization.scheme # "Bearer ")
             => (req.status = 401 /\ ~req.verifyCalled /\ ~req.handlerInvoked)
        /\ (req.pc = "done" /\ ValidBearerVerified)
             => (req.stage = "clerk" /\ req.handlerInvoked /\ req.status = 200)

\* C9 witness: an API request carrying only an internal token that an actor
\* minted and internalAuth would accept was answered 401.
C9_Witness ==
    /\ req.mount = "api" /\ req.pc = "done"
    /\ req.authorization.scheme = "none"
    /\ calls[1].pc = "done" /\ req.internalToken = calls[1].token
    /\ ValidInternalToken(req.internalToken)
    /\ req.status = 401 /\ req.ranClerk

\* C10: internalAuth answers 401 without invoking the handler when
\* X-Internal-Token is absent and when the token's expiration time has passed,
\* also when the token is signed with the shared secret.
C10_InternalAuthRejectsAbsentOrExpired ==
    (req.mount = "internal" /\ req.pc \notin {"idle", "recv", "internal_verify"}) =>
        /\ req.internalToken.kind \in {"none", "empty"}
             => (req.pc = "done" /\ req.status = 401 /\ ~req.handlerInvoked)
        /\ (req.internalToken.kind = "jwt" /\ req.internalToken.exp <= req.verifiedAt)
             => (req.pc = "done" /\ req.status = 401 /\ ~req.handlerInvoked)

\* C10 witness: a token minted by generateInternalToken under the Worker's
\* secret was presented after its expiration time and answered 401.
C10_Witness ==
    /\ req.mount = "internal" /\ req.pc = "done" /\ req.verified
    /\ calls[1].pc = "done" /\ req.internalToken = calls[1].token
    /\ req.internalToken.key = EffectiveSecret(env.INTERNAL_SECRET)
    /\ req.internalToken.exp <= req.verifiedAt
    /\ req.status = 401 /\ ~req.handlerInvoked

\* C21: a query, queryOne or exec call is about to run its statement only
\* when the table and the seed row exist, and once it has returned it has
\* succeeded, a SELECT of the row with id 1 having returned exactly one row;
\* this holds for the first call on a fresh actor as for every other.
C21_InitializationPrecedesStatement ==
    \A c \in Procs :
        calls[c].method \in {"query", "queryOne", "exec"}
        => /\ calls[c].pc = "stmt" => ExactlyOneRecord(calls[c].actor)
           /\ calls[c].pc = "done"
                => /\ calls[c].status = "ok"
                   /\ (calls[c].method # "exec" /\
                       calls[c].stmt.op \in {"select_customer", "select_creator"})
                        => Len(calls[c].out) = 1

\* The first call ever made on a fresh actor was query(SELECT
\* stripe_customer_id ... WHERE id = 1) and has returned one row.
C21_Witness ==
    \E c \in Procs :
        /\ calls[c].fresh
        /\ calls[c].method = "query" /\ calls[c].stmt = SelectCustomer
        /\ calls[c].pc = "done"
        /\ calls[c].out = <<NULL>>

\* C22: when a call runs a statement of ensureInitialized (CREATE TABLE IF
\* NOT EXISTS, INSERT OR IGNORE) on a store that already holds the
\* TenantRecord, as the first call after a restart does, the rows are left as
\* they were (stripe_customer_id, creator_user_id, creator_email, created_at
\* unchanged) and the store still holds exactly one TenantRecord.
C22_ReinitializationPreservesRecord ==
    [][\A a \in Tenants : \A c \in Procs :
         (/\ calls'[c].actor = a
          /\ \/ calls[c].pc # "ei_insert" /\ calls'[c].pc = "ei_insert"
             \/ calls[c].pc = "ei_insert" /\ calls'[c].pc = "ei_flag"
          /\ HasRecord(a))
         => /\ sql'[a].rows = sql[a].rows
            /\ ExactlyOneRecord(a)']_vars

\* After a call had completed and the actor was restarted, another call
\* has re-run both initialization statements on a store whose record holds
\* a customer id or a creator.
C22_Witness ==
    \E c, d \in Procs :
        /\ c # d
        /\ calls[c].pc = "done" /\ Initializes(calls[c])
        /\ calls[d].pc = "ei_flag" /\ calls[d].actor = calls[c].actor
        /\ initRuns[calls[d].actor] = 1
        /\ ~initialized[calls[d].actor]
        /\ \/ CustomerOf(calls[d].actor) # NULL
           \/ CreatorOf(calls[d].actor) # NULL

\* C23: no step of a setCreatorIfNotSet call made when a creator was
\* already recorded changes any row of the store (updated_at included), and
\* a step of a setCreatorIfNotSet call that changes updated_at is the UPDATE
\* that writes the call's userId as creator.
C23_SetCreatorIsNoOpWhenSet ==
    [][\A a \in Tenants : \A c \in Procs :
         (/\ calls'[c].method = "setCreatorIfNotSet"
          /\ calls'[c].actor = a
          /\ calls'[c] # calls[c])
         => /\ ~Falsy(calls'[c].creatorAtCall) => sql'[a].rows = sql[a].rows
            /\ (HasRecord(a) /\ HasRecord(a)'
                /\ Record(a)'.updated_at # Record(a).updated_at)
                 => /\ calls[c].pc = "sc_update"
                    /\ Record(a)'.creator_user_id = calls[c].a1]_vars

\* A setCreatorIfNotSet call made, after the clock had advanced, for a
\* record whose creator was another user has returned; the creator is
\* still that user.
C23_Witness ==
    \E c \in Procs :
        /\ calls[c].method = "setCreatorIfNotSet" /\ calls[c].pc = "done"
        /\ ~Falsy(calls[c].creatorAtCall)
        /\ calls[c].creatorAtCall # calls[c].a1
        /\ CreatorOf(calls[c].actor) = calls[c].creatorAtCall
        /\ Record(calls[c].actor).updated_at < now

\* C24: every call a billing request makes addresses the actor of its
\* tenant id (ctx.orgId when present, ctx.userId otherwise), and every step
\* that changes a tenant's store or initializes its actor belongs to a
\* request for that tenant.
C24_TenantsAreIsolated ==
    /\ [](\A r \in Procs :
            calls[r].pc # "idle"
            => /\ calls[r].actor = bill[r].orgId
               /\ bill[r].orgId = IF Falsy(bill[r].ctx.orgId) THEN bill[r].ctx.userId
                                  ELSE bill[r].ctx.orgId)
    /\ [][\A t \in Tenants :
            (sql'[t] # sql[t] \/ initialized'[t] # initialized[t])
            => \E r \in Procs : /\ bill'[r].orgId = t
                                /\ calls'[r].actor = t
                                /\ calls'[r] # calls[r]]_vars

\* A personal account (no ctx.orgId) has been given a customer of its own
\* while the organization's record still holds the organization's customer.
C24_Witness ==
    \E r \in Procs :
        /\ bill[r].ctx.orgId = NULL /\ bill[r].orgId = "user_1"
        /\ bill[r].pc = "done" /\ bill[r].creates = 1 /\ bill[r].returned
        /\ CustomerOf("user_1") = bill[r].customerId
        /\ sql["org_1"] = ProvisionedDb("cus_1")
        /\ CustomerOf("org_1") # CustomerOf("user_1")

\* C25: a POST /portal request for an organization tenant (tenant id other
\* than the userId) whose orgRole is not 'org:admin' is answered 403 in its
\* first step, with no query sent to the actor, no call of the billing
\* provider and nothing changed; a request of a personal account (tenant id
\* equal to the userId) is never answered 403, whatever its role.
C25_PortalIsAdminOnly ==
    /\ [](\A r \in Procs :
            (bill[r].route = "portal" /\ bill[r].pc # "idle")
            => /\ (bill[r].orgId # bill[r].userId /\ bill[r].ctx.orgRole # "org:admin")
                    => /\ bill[r].pc = "done"
                       /\ bill[r].resp.status = 403
                       /\ bill[r].resp.url = NULL
                       /\ calls[r] = IdleCall
                       /\ bill[r].existing = NULL
                       /\ bill[r].customerId = NULL
                       /\ bill[r].threw = NULL
               /\ bill[r].orgId = bill[r].userId
                    => /\ bill[r].resp.status # 403
                       /\ \A role \in {NULL, "org:member", "org:admin"} :
                            ~AdminRequired(bill[r].orgId, bill[r].userId, role))
    /\ [][\A r \in Procs :
            (bill[r].pc = "idle" /\ bill'[r].resp.status = 403)
            => UNCHANGED <<sql, kv, initialized, initRuns, calls, stripe>>]_vars

\* A member of an organization that has a customer at the billing provider
\* asked for the portal, with the provider configured, and was answered 403.
C25_Witness ==
    \E r \in Procs :
        /\ bill[r].route = "portal" /\ bill[r].pc = "done"
        /\ bill[r].orgId = "org_1" /\ bill[r].ctx.orgRole = "org:member"
        /\ ~Falsy(env.STRIPE_SECRET_KEY)
        /\ CustomerOf("org_1") = "cus_1"
        /\ bill[r].resp.status = 403
        /\ bill[r].resp.error = "Forbidden: Admin permission required"

C27_FailuresLeaveRecordConsistent ==
    /\ [](\A r \in Procs :
            LET t == bill[r].orgId IN
            /\ bill[r].threw = "stripe: customers.create failed"
                 => /\ bill[r].pc = "done" /\ bill[r].resp.status = 500
                    /\ bill[r].customerId = NULL /\ ~bill[r].returned
                    /\ calls[r] = IdleCall
                    /\ CustomersOf(t) = {} => Falsy(CustomerOf(t))
            /\ (bill[r].threw = "stripe: customerSessions.create failed" /\
                bill[r].creates = 1)
                 => /\ bill[r].pc = "done" /\ bill[r].resp.status = 500
                    /\ ~Falsy(CustomerOf(t))
                    /\ t \notin overlap => CustomerOf(t) = bill[r].customerId
                    /\ \A q \in Procs \ {r} :
                         (/\ bill[q].route = "customer-session" /\ bill[q].orgId = t
                          /\ ~bill[q].unsetAtInvoke
                          /\ bill[q].pc \notin {"idle", "read"}
                          /\ bill[q].threw # "storage error")
                         => /\ bill[q].creates = 0
                            /\ bill[q].customerId = bill[q].existing
                            /\ t \notin overlap
                                 => bill[q].customerId = bill[r].customerId)
    /\ [][\A r \in Procs :
            (bill[r].threw = NULL /\
             bill'[r].threw = "stripe: customers.create failed")
            => UNCHANGED <<sql, stripe, initialized>>]_vars

\* Request r created customer cus_1 and stored it, then its
\* stripe.customerSessions.create threw; the retry q, begun after that, got
\* a session for the same customer without creating one.
C27_Witness ==
    \E r, q \in Procs :
        /\ r # q /\ bill[r].orgId = bill[q].orgId
        /\ bill[r].threw = "stripe: customerSessions.create failed"
        /\ bill[r].creates = 1 /\ bill[r].resp.status = 500
        /\ ~bill[q].unsetAtInvoke /\ bill[q].pc = "done"
        /\ bill[q].creates = 0 /\ bill[q].resp.status = 200
        /\ bill[q].resp.customerId = bill[r].customerId
        /\ Len(stripe) = 1

\* C28: no step of a GET /subscription, GET /usage or POST /portal request
\* adds a customer at the billing provider or changes an existing tenant
\* record (on an actor never initialized it leaves the seed row, with no
\* customer id); such a request calls neither stripe.customers.create nor
\* the identity provider, and calls the billing provider only with a
\* customer id it has read.  A request that passed the checks before its
\* query and read no stripe_customer_id is answered with no call of the
\* billing provider: 200 FREE with hasCustomer false, 200 with the FREE
\* limits, and 404.
C28_ReadRoutesDoNotProvision ==
    /\ [](\A r \in Procs :
            bill[r].route \in {"subscription", "usage", "portal"}
            => /\ bill[r].creates = 0 /\ bill[r].lookups = 0
               /\ bill[r].pc \notin {"clerk_user", "clerk_org", "create", "write", "session"}
               /\ (bill[r].pc \in {"plan", "sub_list", "portal"} \/ bill[r].listed # NULL)
                    => /\ HasCustomerId(bill[r].existing)
                       /\ bill[r].customerId = bill[r].existing
               /\ (/\ bill[r].pc = "done"
                   /\ bill[r].resp.status \notin {401, 403}
                   /\ bill[r].resp.error # "Stripe not configured"
                   /\ bill[r].threw # "storage error"
                   /\ ~HasCustomerId(bill[r].existing))
                    => /\ bill[r].listed = NULL /\ bill[r].threw = NULL
                       /\ bill[r].customerId = NULL
                       /\ CASE bill[r].route = "subscription" ->
                                 bill[r].resp = [NoResponse EXCEPT !.status = 200,
                                                                   !.planType = "FREE",
                                                                   !.hasCustomer = FALSE]
                            [] bill[r].route = "usage" ->
                                 /\ bill[r].resp.status = 200
                                 /\ bill[r].resp.planType = "FREE"
                                 /\ bill[r].resp.maxItems = PLAN_LIMITS.FREE.maxItems
                            [] OTHER ->
                                 /\ bill[r].resp.status = 404
                                 /\ bill[r].resp.url = NULL)
    /\ [][\A r \in Procs :
            (/\ bill'[r].route \in {"subscription", "usage", "portal"}
             /\ bill'[r] # bill[r] \/ calls'[r] # calls[r])
            => /\ stripe' = stripe
               /\ \A t \in Tenants :
                    IF HasRecord(t) THEN sql'[t].rows = sql[t].rows
                    ELSE sql'[t].rows \subseteq {DefaultRow(1, now)}]_vars

\* GET /subscription for an organization whose record holds no customer id
\* was answered FREE with hasCustomer false; the record is as it was and
\* the provider holds no customer.
C28_Witness ==
    \E r \in Procs :
        /\ bill[r].route = "subscription" /\ bill[r].pc = "done"
        /\ bill[r].orgId = "org_1" /\ Falsy(bill[r].existing)
        /\ bill[r].resp.status = 200 /\ bill[r].resp.planType = "FREE"
        /\ ~bill[r].resp.hasCustomer
        /\ sql["org_1"] = ProvisionedDb(NULL)
        /\ stripe = <<>>

====
